---- MODULE Spec2Model ----
(***************************************************************************)
(* Water Quality Monitor (water_quality_app.py): the Validator             *)
(* (validate_input), the Scorer (predict_water_quality) and the history    *)
(* ledger kept in the Streamlit session state.                             *)
(*                                                                         *)
(* Numbers.  A measurement value is a Python float with one decimal; it is *)
(* written in tenths, so pH 7.2 is 72 and hardness 180.0 is 1800, and the  *)
(* thresholds of the source are written in tenths too (6.5 is 65, 300 is   *)
(* 3000).  A value of a data record is the one-element tuple <<x>> when    *)
(* it is a number and <<>> when it is a Python value that is not a number  *)
(* (None, a str); a key that is missing is missing from the DOMAIN.        *)
(* Weights are written in thousandths (0.128 is 128), so that the running  *)
(* score is an integer number of thousandths, and final_score is kept as   *)
(* the exact fraction num/den.  The reported confidence is in tenths of a  *)
(* percent (11.1 is 111).                                                  *)
(***************************************************************************)
EXTENDS Integers, Sequences, FiniteSets, TLC

VARIABLES session_state, page, last, summary, analyses

vars == <<session_state, page, last, summary, analyses>>

(***************************************************************************)
(* Measurements                                                            *)
(***************************************************************************)
Fields ==
    {"ph", "hardness", "solids", "chloramines", "sulfate", "conductivity",
     "organic_carbon", "trihalomethanes", "turbidity"}

N(x) == <<x>>

NotNumber == <<>>

IsNumber(v) == Len(v) = 1

Val(data, f) == data[f][1]

\* The statements of validate_input and of the try block read every one of
\* the nine keys on every path, so either raises exactly when a key is
\* missing (KeyError) or holds a value that is not a number (TypeError).
Malformed(data) ==
    \E f \in Fields : f \notin DOMAIN data \/ ~IsNumber(data[f])

defaults ==
    [ph |-> N(70), hardness |-> N(2000), solids |-> N(4000),
     chloramines |-> N(30), sulfate |-> N(2000), conductivity |-> N(3500),
     organic_carbon |-> N(15), trihalomethanes |-> N(600),
     turbidity |-> N(30)]

SafeWater ==
    [ph |-> N(72), hardness |-> N(1800), solids |-> N(3500),
     chloramines |-> N(25), sulfate |-> N(1800), conductivity |-> N(3200),
     organic_carbon |-> N(12), trihalomethanes |-> N(450),
     turbidity |-> N(28)]

UnsafeWater ==
    [ph |-> N(52), hardness |-> N(4500), solids |-> N(12000),
     chloramines |-> N(65), sulfate |-> N(3800), conductivity |-> N(6500),
     organic_carbon |-> N(48), trihalomethanes |-> N(1200),
     turbidity |-> N(85)]

(***************************************************************************)
(* validate_input                                                          *)
(***************************************************************************)
HardPhWarning == "pH is outside realistic range for natural water (4-10)"

SoftPhWarning == "pH is outside WHO recommended range (6.5-8.5)"

Rule(cond, text) == IF cond THEN <<text>> ELSE <<>>

\* Two independent ifs in place of the if/elif.
ph_validation_both(ph) ==
    (IF ph < 40 \/ ph > 100 THEN <<HardPhWarning>> ELSE <<>>)
    \o (IF ph < 65 \/ ph > 85 THEN <<SoftPhWarning>> ELSE <<>>)

ph_validation(ph) ==
    IF ph < 40 \/ ph > 100 THEN <<HardPhWarning>>
    ELSE IF ph < 65 \/ ph > 85 THEN <<SoftPhWarning>>
    ELSE <<>>

hardness_validation(x) ==
    Rule(x > 5000, "Water hardness is extremely high (>500 mg/L)")

solids_validation(x) ==
    Rule(x > 15000, "Total Dissolved Solids is extremely high (>1500 ppm)")

chloramines_validation(x) ==
    Rule(x > 80, "Chloramines level is extremely high (>8 ppm)")

sulfate_validation(x) ==
    Rule(x > 5000, "Sulfate level exceeds WHO guideline (>500 mg/L)")

conductivity_validation(x) ==
    Rule(x > 15000, "Conductivity is extremely high (>1500 uS/cm)")

organic_carbon_validation(x) ==
    Rule(x > 50, "Organic carbon is extremely high (>5 ppm)")

trihalomethanes_validation(x) ==
    Rule(x > 1600, "Trihalomethanes significantly exceed EPA limit (>160 ug/L)")

\* A turbidity equal to the bound reported too.
turbidity_validation_inclusive(x) ==
    Rule(x >= 100, "Turbidity is extremely high (>10 NTU)")

turbidity_validation(x) ==
    Rule(x > 100, "Turbidity is extremely high (>10 NTU)")

\* The outcome of a call: the list it returns, or the exception it lets out.
validate_input(data) ==
    IF Malformed(data)
    THEN [raised |-> TRUE, warnings |-> <<>>]
    ELSE [raised |-> FALSE,
          warnings |->
              ph_validation(Val(data, "ph"))
              \o hardness_validation(Val(data, "hardness"))
              \o solids_validation(Val(data, "solids"))
              \o chloramines_validation(Val(data, "chloramines"))
              \o sulfate_validation(Val(data, "sulfate"))
              \o conductivity_validation(Val(data, "conductivity"))
              \o organic_carbon_validation(Val(data, "organic_carbon"))
              \o trihalomethanes_validation(Val(data, "trihalomethanes"))
              \o turbidity_validation(Val(data, "turbidity"))]

(***************************************************************************)
(* predict_water_quality                                                   *)
(***************************************************************************)
weights ==
    [sulfate |-> 142, ph |-> 128, hardness |-> 119, solids |-> 114,
     chloramines |-> 108, conductivity |-> 102, organic_carbon |-> 98,
     trihalomethanes |-> 95, turbidity |-> 94]

Check(cond, factor) ==
    IF cond THEN [factor |-> 100, status |-> "good"]
    ELSE [factor |-> factor, status |-> "warning"]

\* The realistic range (4-10) taken as the optimal one.
ph_check_realistic(x) == Check(40 <= x /\ x <= 100, 50)

ph_check(x) == Check(65 <= x /\ x <= 85, 50)

\* A hardness equal to the threshold taken as good.
hardness_check_inclusive(x) == Check(x <= 3000, 60)

hardness_check(x) == Check(x < 3000, 60)

sulfate_check(x) == Check(x < 2500, 50)

\* A TDS of exactly 1000 ppm left in the middle tier.
solids_check_inclusive(x) ==
    IF x < 5000 THEN [factor |-> 100, status |-> "good"]
    ELSE IF x <= 10000 THEN [factor |-> 70, status |-> "warning"]
    ELSE [factor |-> 40, status |-> "warning"]

\* The elif branch taken for every value that is not good.
solids_check_two_tier(x) ==
    IF x < 5000 THEN [factor |-> 100, status |-> "good"]
    ELSE [factor |-> 70, status |-> "warning"]

solids_check(x) ==
    IF x < 5000 THEN [factor |-> 100, status |-> "good"]
    ELSE IF x < 10000 THEN [factor |-> 70, status |-> "warning"]
    ELSE [factor |-> 40, status |-> "warning"]

chloramines_check(x) == Check(x < 40, 60)

conductivity_check(x) == Check(x < 4000, 70)

organic_carbon_check(x) == Check(x < 20, 70)

trihalomethanes_check(x) == Check(x < 800, 50)

turbidity_check(x) == Check(x < 50, 60)

\* The nine if/else statements, by the key of data each one reads.
checks(data) ==
    [ph |-> ph_check(Val(data, "ph")),
     hardness |-> hardness_check(Val(data, "hardness")),
     sulfate |-> sulfate_check(Val(data, "sulfate")),
     solids |-> solids_check(Val(data, "solids")),
     chloramines |-> chloramines_check(Val(data, "chloramines")),
     conductivity |-> conductivity_check(Val(data, "conductivity")),
     organic_carbon |-> organic_carbon_check(Val(data, "organic_carbon")),
     trihalomethanes |-> trihalomethanes_check(Val(data, "trihalomethanes")),
     turbidity |-> turbidity_check(Val(data, "turbidity"))]

\* A score that misses the last of the nine additions.
score_skips_turbidity(data) ==
    LET c == checks(data)
        add(f) == weights[f] * c[f].factor
    IN  add("ph") + add("hardness") + add("sulfate") + add("solids")
        + add("chloramines") + add("conductivity") + add("organic_carbon")
        + add("trihalomethanes")

\* score after the nine "score += weights[f] * factor" statements, in
\* thousandths.
score(data) ==
    LET c == checks(data)
        add(f) == weights[f] * c[f].factor
    IN  add("ph") + add("hardness") + add("sulfate") + add("solids")
        + add("chloramines") + add("conductivity") + add("organic_carbon")
        + add("trihalomethanes") + add("turbidity")

\* The keys of parameter_status and the key of data each one reports.
ParamKey ==
    [pH |-> "ph", Hardness |-> "hardness", Sulfate |-> "sulfate",
     TDS |-> "solids", Chloramines |-> "chloramines",
     Conductivity |-> "conductivity", OrganicCarbon |-> "organic_carbon",
     Trihalomethanes |-> "trihalomethanes", Turbidity |-> "turbidity"]

ParamUnit ==
    [pH |-> "", Hardness |-> "mg/L", Sulfate |-> "mg/L", TDS |-> "ppm",
     Chloramines |-> "ppm", Conductivity |-> "uS/cm",
     OrganicCarbon |-> "ppm", Trihalomethanes |-> "ug/L",
     Turbidity |-> "NTU"]

parameter_status(data) ==
    [p \in DOMAIN ParamKey |->
        [status |-> checks(data)[ParamKey[p]].status,
         value |-> Val(data, ParamKey[p]),
         unit |-> ParamUnit[p]]]

\* The division by the sum of the weights (1.000) in place of 9.
final_score_by_weights(s) == [num |-> s, den |-> 1000]

\* final_score = score / 9, as the fraction num/den (score is in
\* thousandths, hence the 1000).
final_score(s) == [num |-> s, den |-> 9 * 1000]

GreaterThan(final, k) == final.num > k * final.den

\* Thresholds written for a score out of 10.
quality_out_of_ten(final) ==
    IF GreaterThan(final, 8) THEN "Excellent"
    ELSE IF GreaterThan(final, 7) THEN "Good"
    ELSE IF GreaterThan(final, 5) THEN "Fair"
    ELSE "Poor"

\* A label that is not one of the four.
quality_lower(final) ==
    IF GreaterThan(final, 85) THEN "Excellent"
    ELSE IF GreaterThan(final, 70) THEN "Good"
    ELSE IF GreaterThan(final, 50) THEN "Fair"
    ELSE "poor"

quality(final) ==
    IF GreaterThan(final, 85) THEN "Excellent"
    ELSE IF GreaterThan(final, 70) THEN "Good"
    ELSE IF GreaterThan(final, 50) THEN "Fair"
    ELSE "Poor"

\* The cutoff written 7 for 70.
potable_typo(final) == GreaterThan(final, 7)

potable(final) == GreaterThan(final, 70)

\* round(final_score, 1) rounds the double that the float additions and the
\* division produced.  Where the exact fraction is not halfway between two
\* tenths the double rounds as the fraction does.  Seven of the 768 tier
\* combinations give an exact fraction that is halfway; there the double
\* lies just above or just below the half and round() follows the double:
\* above for the three sums below, below for the other four (70650, 71550,
\* 76050, 62550).  Any other halfway case rounds to even.
DoubleAboveHalf == {81450, 76950, 63450}

DoubleBelowHalf == {70650, 71550, 76050, 62550}

round1(final) ==
    LET n == 10 * final.num
        q == n \div final.den
        r == n % final.den
    IN  IF 2 * r > final.den THEN q + 1
        ELSE IF 2 * r < final.den THEN q
        ELSE IF final.num \in DoubleAboveHalf THEN q + 1
        ELSE IF final.num \in DoubleBelowHalf THEN q
        ELSE IF q % 2 = 1 THEN q + 1 ELSE q

\* What the function returns when the except clause ran.
None == [none |-> TRUE]

\* The dictionary the try block returns.
score_result(data) ==
    LET final == final_score(score(data))
    IN  [potable |-> potable(final),
         confidence |-> round1(final),
         quality |-> quality(final),
         parameters |-> parameter_status(data)]

\* An except clause that catches nothing: the exception leaves the function.
predict_uncaught(data) ==
    IF Malformed(data) THEN [raised |-> TRUE] ELSE score_result(data)

\* A score that is not reset between calls: the result depends on the
\* entries scored before.
predict_stateful(data) ==
    IF Malformed(data) THEN None
    ELSE [score_result(data) EXCEPT
            !.confidence = @ + Len(session_state.history)]

predict_water_quality(data) ==
    IF Malformed(data) THEN None ELSE score_result(data)

(***************************************************************************)
(* Session state and the pages                                             *)
(***************************************************************************)
Pages == {"Water Test", "History", "About"}

\* An initialisation without the "not in" test on the ledger.
initialize_session_state_reset(s) ==
    [k \in DOMAIN s \cup {"history"} \cup Fields |->
        IF k = "history" THEN <<>>
        ELSE IF k \in DOMAIN s THEN s[k]
        ELSE defaults[k]]

\* initialize_session_state, run at the top of every script run: it adds
\* the keys that are missing and leaves the others alone.
initialize_session_state(s) ==
    [k \in DOMAIN s \cup {"history"} \cup Fields |->
        IF k \in DOMAIN s THEN s[k]
        ELSE IF k = "history" THEN <<>>
        ELSE defaults[k]]

\* The session state of a new session, before the first script run.
NewSession == [k \in {} |-> <<>>]

\* data = {'ph': st.session_state.ph, ...}
Inputs(s) == [f \in Fields |-> s[f]]

SetInputs(s, m) == [k \in DOMAIN s |-> IF k \in Fields THEN m[k] ELSE s[k]]

\* The ledger of the session.
history == session_state.history

\* The session state once main() has run initialize_session_state, as every
\* script run does before it draws the page.
Started == initialize_session_state(session_state)

\* An append at the tail in place of the insert at the head.
insert_entry_tail(ledger, entry) ==
    LET h == ledger \o <<entry>>
    IN  IF Len(h) > 50 THEN SubSeq(h, 1, 50) ELSE h

\* An assignment to the head in place of the insert.
insert_entry_overwrite(ledger, entry) ==
    IF ledger = <<>> THEN <<entry>> ELSE [ledger EXCEPT ![1] = entry]

\* A cut that lets the ledger reach 51 entries.
insert_entry_late(ledger, entry) ==
    LET h == <<entry>> \o ledger
    IN  IF Len(h) > 51 THEN SubSeq(h, 1, 50) ELSE h

\* history.insert(0, history_entry), then the cut to the first 50.  An
\* entry is the record scored and its result; its timestamp string, which
\* nothing reads back but the display and the exports, is left out.
insert_entry(ledger, entry) ==
    LET h == <<entry>> \o ledger
    IN  IF Len(h) > 50 THEN SubSeq(h, 1, 50) ELSE h

\* The History page: the summary statistics it shows.  avg_confidence is the
\* fraction num/den, num in tenths of a percent.
RECURSIVE SumConfidence(_)
SumConfidence(h) ==
    IF h = <<>> THEN 0
    ELSE Head(h).result.confidence + SumConfidence(Tail(h))

NoSummary == [shown |-> FALSE, raised |-> FALSE]

\* The statements after the early return; a division by total_tests raises
\* ZeroDivisionError when it is 0.
statistics(h) ==
    LET total_tests == Len(h)
        potable_count ==
            Cardinality({i \in 1..Len(h) : h[i].result.potable})
    IN  IF total_tests = 0
        THEN [shown |-> FALSE, raised |-> TRUE]
        ELSE [shown |-> TRUE, raised |-> FALSE,
              total_tests |-> total_tests,
              potable_count |-> potable_count,
              not_potable_count |-> total_tests - potable_count,
              avg_confidence |->
                  [num |-> SumConfidence(h), den |-> total_tests]]

\* A page without the early return on an empty ledger.
history_page_no_guard(h) == statistics(h)

history_page(h) == IF h = <<>> THEN NoSummary ELSE statistics(h)

\* What the last script run did: nothing that scores or clears ("none"), an
\* Analyze, a Clear History, or a direct call of one of the two functions;
\* with the record it was given and the warnings and the result it showed.
NoRequest ==
    [op |-> "none", data |-> <<>>, raised |-> FALSE, warnings |-> <<>>,
     result |-> None]

\* An Analyze that stops at the warnings.
AnalyzeData_blocking(data) ==
    LET v == validate_input(data)
        result == predict_water_quality(data)
        history_entry == [result |-> result, data |-> data]
    IN  IF v.raised \/ v.warnings # <<>>
        THEN /\ last' = [op |-> "analyze", data |-> data,
                         raised |-> v.raised, warnings |-> v.warnings,
                         result |-> None]
             /\ session_state' = Started
             /\ UNCHANGED analyses
        ELSE /\ last' = [op |-> "analyze", data |-> data, raised |-> FALSE,
                         warnings |-> v.warnings, result |-> result]
             /\ session_state' =
                    IF result # None
                    THEN [Started EXCEPT
                            !.history = insert_entry(@, history_entry)]
                    ELSE Started
             /\ analyses' = IF result # None THEN analyses + 1 ELSE analyses

\* The body of the Analyze button once data is built: validate, score, and
\* save when there is a result.  An exception out of validate_input ends
\* the script run there.
AnalyzeData(data) ==
    LET v == validate_input(data)
        result == predict_water_quality(data)
        history_entry == [result |-> result, data |-> data]
    IN  IF v.raised
        THEN /\ last' = [op |-> "analyze", data |-> data, raised |-> TRUE,
                         warnings |-> <<>>, result |-> None]
             /\ session_state' = Started
             /\ UNCHANGED analyses
        ELSE /\ last' = [op |-> "analyze", data |-> data, raised |-> FALSE,
                         warnings |-> v.warnings, result |-> result]
             /\ session_state' =
                    IF result # None
                    THEN [Started EXCEPT
                            !.history = insert_entry(@, history_entry)]
                    ELSE Started
             /\ analyses' = IF result # None THEN analyses + 1 ELSE analyses

Analyze ==
    /\ page = "Water Test"
    /\ AnalyzeData(Inputs(Started))
    /\ summary' = NoSummary
    /\ UNCHANGED page

\* An entry that shares its data with the form: an edit shows in the newest
\* entry too.
EditInput_aliased(f, v) ==
    /\ page = "Water Test"
    /\ v >= 0
    /\ f = "ph" => v <= 140
    /\ session_state' =
          [Started EXCEPT
              ![f] = N(v),
              !.history = IF @ = <<>> THEN @
                          ELSE [@ EXCEPT ![1].data[f] = N(v)]]
    /\ last' = NoRequest
    /\ summary' = NoSummary
    /\ UNCHANGED <<page, analyses>>

\* A number_input whose value the user changed: the run stores it.
EditInput(f, v) ==
    /\ page = "Water Test"
    /\ v >= 0
    /\ f = "ph" => v <= 140
    /\ session_state' = [Started EXCEPT ![f] = N(v)]
    /\ last' = NoRequest
    /\ summary' = NoSummary
    /\ UNCHANGED <<page, analyses>>

QuickFill(m) ==
    /\ page = "Water Test"
    /\ session_state' = SetInputs(Started, m)
    /\ last' = NoRequest
    /\ summary' = NoSummary
    /\ UNCHANGED <<page, analyses>>

SafeExample == QuickFill(SafeWater)

UnsafeExample == QuickFill(UnsafeWater)

ResetDefaults == QuickFill(defaults)

\* The button is drawn only when the ledger is not empty; st.rerun() then
\* draws the History page again.
ClearHistory ==
    /\ page = "History"
    /\ Started.history # <<>>
    /\ session_state' = [Started EXCEPT !.history = <<>>]
    /\ last' = [NoRequest EXCEPT !.op = "clear"]
    /\ summary' = history_page(session_state'.history)
    /\ analyses' = 0
    /\ UNCHANGED page

SelectPage(p) ==
    /\ page' = p
    /\ session_state' = Started
    /\ last' = NoRequest
    /\ summary' = IF p = "History" THEN history_page(Started.history)
                   ELSE NoSummary
    /\ UNCHANGED analyses

\* Direct calls of the two functions on a record.
CallPredict(data) ==
    /\ last' = [op |-> "predict", data |-> data, raised |-> FALSE,
                warnings |-> <<>>, result |-> predict_water_quality(data)]
    /\ UNCHANGED <<session_state, page, summary, analyses>>

CallValidate(data) ==
    /\ last' = [op |-> "validate", data |-> data,
                raised |-> validate_input(data).raised,
                warnings |-> validate_input(data).warnings,
                result |-> None]
    /\ UNCHANGED <<session_state, page, summary, analyses>>

(***************************************************************************)
(* The session: one user, the three pages, the ledger up to its cap.       *)
(***************************************************************************)
\* Inputs change only while the ledger holds fewer entries than this.
MaxMixed == 3

\* Analyze is pressed at most this many times between two Clear History.
MaxAnalyses == 52

\* The records the user enters in the session.
SessionInputs ==
    {defaults, SafeWater, UnsafeWater,
     [defaults EXCEPT !.ph = N(30)],
     [SafeWater EXCEPT !.solids = N(7000)]}

EditValues(f) == {m[f][1] : m \in SessionInputs}

CanChange == Len(session_state.history) < MaxMixed

Init ==
    /\ session_state = initialize_session_state(NewSession)
    /\ page = "Water Test"
    /\ last = NoRequest
    /\ summary = NoSummary
    /\ analyses = 0

Next ==
    \/ analyses < MaxAnalyses /\ Analyze
    \/ ClearHistory
    \/ \E p \in Pages : SelectPage(p)
    \/ \E f \in Fields : \E v \in EditValues(f) :
          /\ CanChange
          /\ [Inputs(session_state) EXCEPT ![f] = N(v)] \in SessionInputs
          /\ EditInput(f, v)
    \/ CanChange /\ SafeExample
    \/ CanChange /\ UnsafeExample
    \/ CanChange /\ ResetDefaults

Spec == Init /\ [][Next]_vars

(***************************************************************************)
(* The functions on their own: the form holds one of a large set of        *)
(* records, the Analyze button and direct calls of the two functions are   *)
(* applied to it, and the Analyze body and the direct calls are also given *)
(* records that are not well formed.                                       *)
(***************************************************************************)
\* The ledger grows to this length only.
MaxFnLedger == 2

\* One value per tier of the Scorer: every combination of tiers occurs.
TierRecords ==
    {[ph |-> N(a), hardness |-> N(b), solids |-> N(c), chloramines |-> N(d),
      sulfate |-> N(e), conductivity |-> N(g), organic_carbon |-> N(h),
      trihalomethanes |-> N(i), turbidity |-> N(j)] :
        a \in {72, 52}, b \in {1800, 4500}, c \in {3500, 7000, 12000},
        d \in {25, 65}, e \in {1800, 3800}, g \in {3200, 6500},
        h \in {12, 48}, i \in {450, 1200}, j \in {28, 85}}

\* Below and above each bound of the Validator: every combination of rules
\* fires, from none to all nine.
RuleRecords ==
    {[ph |-> N(a), hardness |-> N(b), solids |-> N(c), chloramines |-> N(d),
      sulfate |-> N(e), conductivity |-> N(g), organic_carbon |-> N(h),
      trihalomethanes |-> N(i), turbidity |-> N(j)] :
        a \in {72, 30, 110}, b \in {4500, 5001}, c \in {12000, 15001},
        d \in {65, 81}, e \in {3800, 5001}, g \in {6500, 15001},
        h \in {48, 51}, i \in {1200, 1601}, j \in {85, 101}}

\* The values at and next to each threshold of the Scorer and each bound of
\* the Validator, and the ends of the range of each input.
EdgeValues ==
    [ph |-> {0, 39, 40, 41, 64, 65, 66, 84, 85, 86, 99, 100, 101, 140},
     hardness |-> {0, 2999, 3000, 3001, 4999, 5000, 5001},
     solids |-> {0, 4999, 5000, 5001, 9999, 10000, 10001, 14999, 15000,
                 15001},
     chloramines |-> {0, 39, 40, 41, 79, 80, 81},
     sulfate |-> {0, 2499, 2500, 2501, 4999, 5000, 5001},
     conductivity |-> {0, 3999, 4000, 4001, 14999, 15000, 15001},
     organic_carbon |-> {0, 19, 20, 21, 49, 50, 51},
     trihalomethanes |-> {0, 799, 800, 801, 1599, 1600, 1601},
     turbidity |-> {0, 49, 50, 51, 99, 100, 101}]

EdgeRecords ==
    UNION {{[m EXCEPT ![f] = N(v)] : v \in EdgeValues[f]} :
              m \in {defaults, SafeWater, UnsafeWater}, f \in Fields}

Measurements == TierRecords \cup RuleRecords \cup EdgeRecords

\* Records that are not well formed: a key is missing (the first, a middle
\* and the last one read), a value is not a number, or the record is empty.
MalformedRecords ==
    {[k \in Fields \ {f} |-> SafeWater[k]] :
        f \in {"ph", "solids", "turbidity"}}
    \cup {[UnsafeWater EXCEPT ![f] = NotNumber] :
        f \in {"ph", "sulfate", "turbidity"}}
    \cup {[k \in {} |-> NotNumber]}

InitFn ==
    /\ \E m \in Measurements :
          session_state = SetInputs(initialize_session_state(NewSession), m)
    /\ page = "Water Test"
    /\ last = NoRequest
    /\ summary = NoSummary
    /\ analyses = 0

NextFn ==
    \/ Len(history) < MaxFnLedger /\ Analyze
    \/ CallPredict(Inputs(session_state))
    \/ CallValidate(Inputs(session_state))
    \/ \E data \in MalformedRecords : CallPredict(data)
    \/ \E data \in MalformedRecords : CallValidate(data)
    \/ \E data \in MalformedRecords :
          AnalyzeData(data) /\ UNCHANGED <<page, summary>>

SpecFn == InitFn /\ [][NextFn]_vars

(***************************************************************************)
(* Properties                                                              *)
(***************************************************************************)
\* The last run scored a record: the Analyze button or a direct call.
Scored == last.op \in {"analyze", "predict"} /\ last.result # None

Validated == last.op \in {"analyze", "validate"} /\ ~last.raised

Count(w, seq) == Cardinality({i \in 1..Len(seq) : seq[i] = w})

Statuses(result) == {result.parameters[p].status : p \in DOMAIN ParamKey}

\* C1: scoring the safe water example (pH 7.2, hardness 180, TDS 350,
\* chloramines 2.5, sulfate 180, conductivity 320, organic carbon 1.2,
\* trihalomethanes 45, turbidity 2.8) marks all nine fields good and gives
\* confidence 100.0, quality Excellent and potable true.
C1_SafeExampleScores100 ==
    (last.op \in {"analyze", "predict"} /\ last.data = SafeWater) =>
        /\ last.result # None
        /\ Statuses(last.result) = {"good"}
        /\ last.result.confidence = 1000
        /\ last.result.quality = "Excellent"
        /\ last.result.potable = TRUE

\* C2: for every record with nine numeric fields the result has a
\* confidence within [0, 100] and a quality that is one of Excellent, Good,
\* Fair, Poor.
C2_ConfidenceAndQualityInRange ==
    (last.op \in {"analyze", "predict"} /\ ~Malformed(last.data)) =>
        /\ last.result # None
        /\ last.result.confidence >= 0
        /\ last.result.confidence <= 1000
        /\ last.result.quality \in {"Excellent", "Good", "Fair", "Poor"}

C2_Witness ==
    /\ Scored
    /\ last.op = "predict"
    /\ last.data \in TierRecords
    /\ last.result.quality = "Poor"

\* C3: the potable flag of every result equals (confidence > 70), the
\* confidence being the rounded value placed in the result.
C3_PotableIffConfidenceAbove70 ==
    Scored => (last.result.potable <=> last.result.confidence > 700)

C3_Witness ==
    /\ Scored
    /\ last.data \in EdgeRecords
    /\ last.result.potable = FALSE
    /\ last.result.confidence <= 700

\* C4: the ledger never holds more than 50 entries, and right after a
\* Clear History it is empty.
C4_LedgerCappedAndCleared ==
    /\ Len(history) <= 50
    /\ last.op = "clear" => history = <<>>

C4_Witness == Len(history) = 50 /\ page = "History"

\* C5: on a record with a missing or non-numeric field predict_water_quality
\* returns None, and an Analyze of such a record leaves the ledger as it
\* was.
C5_MalformedRecordsNothing ==
    /\ [](last.op = "predict" /\ Malformed(last.data) => last.result = None)
    /\ [][(last'.op = "analyze" /\ Malformed(last'.data)) =>
            (history' = history /\ last'.result = None)]_vars

C5_Witness ==
    /\ last.op = "analyze"
    /\ Malformed(last.data)
    /\ Len(history) = MaxFnLedger

\* C6: validate_input gives at most one pH warning: the hard one exactly
\* when pH < 4 or pH > 10, the soft one exactly when pH is within [4, 10]
\* and outside [6.5, 8.5], none when pH is within [6.5, 8.5].
C6_PhWarningsExclusive ==
    Validated =>
        LET ph == Val(last.data, "ph")
            hard == Count(HardPhWarning, last.warnings)
            soft == Count(SoftPhWarning, last.warnings)
        IN  /\ hard + soft <= 1
            /\ hard = 1 <=> (ph < 40 \/ ph > 100)
            /\ soft = 1 <=> (40 <= ph /\ ph <= 100 /\ (ph < 65 \/ ph > 85))
            /\ (65 <= ph /\ ph <= 85) => hard + soft = 0

C6_Witness ==
    /\ Validated
    /\ Val(last.data, "ph") = 39
    /\ Count(HardPhWarning, last.warnings) = 1
    /\ Count(SoftPhWarning, last.warnings) = 0

C9_UnsafeExampleScore ==
    (last.op \in {"analyze", "predict"} /\ last.data = UnsafeWater) =>
        LET total == 128 * 50 + 119 * 60 + 114 * 40 + 108 * 60 + 142 * 50
                     + 102 * 70 + 98 * 70 + 95 * 50 + 94 * 60
            off == 10 * total - 9000 * last.result.confidence
        IN  /\ last.result # None
            /\ Statuses(last.result) = {"warning"}
            /\ 2 * off < 9000
            /\ 2 * off > -9000

C9_Witness ==
    /\ last.op = "analyze"
    /\ last.data = UnsafeWater
    /\ last.result # None
    /\ last.result.confidence = 62

Contribution(result, p) ==
    LET weight ==
            [pH |-> 128, Hardness |-> 119, TDS |-> 114, Chloramines |-> 108,
             Sulfate |-> 142, Conductivity |-> 102, OrganicCarbon |-> 98,
             Trihalomethanes |-> 95, Turbidity |-> 94]
        factor ==
            [pH |-> 50, Hardness |-> 60, TDS |-> 70, Chloramines |-> 60,
             Sulfate |-> 50, Conductivity |-> 70, OrganicCarbon |-> 70,
             Trihalomethanes |-> 50, Turbidity |-> 60]
    IN  IF result.parameters[p].status = "good" THEN weight[p] * 100
        ELSE IF p = "TDS" /\ result.parameters[p].value >= 10000
             THEN weight[p] * 40
        ELSE weight[p] * factor[p]

Contributions(result) ==
    Contribution(result, "pH") + Contribution(result, "Hardness")
    + Contribution(result, "TDS") + Contribution(result, "Chloramines")
    + Contribution(result, "Sulfate") + Contribution(result, "Conductivity")
    + Contribution(result, "OrganicCarbon")
    + Contribution(result, "Trihalomethanes")
    + Contribution(result, "Turbidity")

C12_QualityFollowsThresholds ==
    Scored =>
        LET c == last.result.confidence
            q == last.result.quality
        IN  /\ q = "Excellent" <=> c > 850
            /\ q = "Good" <=> (700 < c /\ c <= 850)
            /\ q = "Fair" <=> (500 < c /\ c <= 700)
            /\ q = "Poor" <=> c <= 500
            /\ last.result.potable <=> q \in {"Excellent", "Good"}

C12_Witness ==
    /\ Scored
    /\ last.data \in RuleRecords
    /\ last.result.quality = "Poor"
    /\ last.result.confidence <= 500
    /\ last.result.potable = FALSE


\* C13: every result has exactly the nine entries pH, Hardness, Sulfate,
\* TDS, Chloramines, Conductivity, Organic Carbon, Trihalomethanes and
\* Turbidity, each with the raw input value, and each is good iff its test
\* passes (6.5 <= pH <= 8.5, hardness < 300, TDS < 500, chloramines < 4,
\* sulfate < 250, conductivity < 400, organic carbon < 2,
\* trihalomethanes < 80, turbidity < 5, a value equal to a strict threshold
\* being warning) and warning otherwise.
C13_NineStatuses ==
    Scored =>
        LET ps == last.result.parameters
            d == last.data
            Entry(p, f, good) ==
                /\ ps[p].value = d[f][1]
                /\ ps[p].status = IF good THEN "good" ELSE "warning"
        IN  /\ DOMAIN ps =
                {"pH", "Hardness", "Sulfate", "TDS", "Chloramines",
                 "Conductivity", "OrganicCarbon", "Trihalomethanes",
                 "Turbidity"}
            /\ Entry("pH", "ph", 65 <= d.ph[1] /\ d.ph[1] <= 85)
            /\ Entry("Hardness", "hardness", d.hardness[1] < 3000)
            /\ Entry("Sulfate", "sulfate", d.sulfate[1] < 2500)
            /\ Entry("TDS", "solids", d.solids[1] < 5000)
            /\ Entry("Chloramines", "chloramines", d.chloramines[1] < 40)
            /\ Entry("Conductivity", "conductivity",
                     d.conductivity[1] < 4000)
            /\ Entry("OrganicCarbon", "organic_carbon",
                     d.organic_carbon[1] < 20)
            /\ Entry("Trihalomethanes", "trihalomethanes",
                     d.trihalomethanes[1] < 800)
            /\ Entry("Turbidity", "turbidity", d.turbidity[1] < 50)

C13_Witness ==
    /\ Scored
    /\ last.data.hardness = N(3000)
    /\ last.result.parameters["Hardness"].status = "warning"
    /\ last.result.parameters["Hardness"].value = 3000


\* C14: TDS has three tiers: below 500 it adds 0.114 * 100 with status
\* good, from 500 and below 1000 it adds 0.114 * 70 with status warning,
\* from 1000 on it adds 0.114 * 40 with status warning; every other field
\* has two tiers, 100 with good and its one factor with warning.
C14_TdsThreeTiers ==
    Scored =>
        LET d == last.data
            x == d.solids[1]
            tier == IF x < 5000 THEN 100 ELSE IF x < 10000 THEN 70 ELSE 40
            twoTier ==
                [ph |-> 50, hardness |-> 60, chloramines |-> 60,
                 sulfate |-> 50, conductivity |-> 70, organic_carbon |-> 70,
                 trihalomethanes |-> 50, turbidity |-> 60]
        IN  /\ score(d) - score([d EXCEPT !.solids = N(0)])
                   = 114 * tier - 114 * 100
            /\ last.result.parameters["TDS"].status
                   = IF tier = 100 THEN "good" ELSE "warning"
            /\ \A f \in DOMAIN twoTier :
                  \/ checks(d)[f] = [factor |-> 100, status |-> "good"]
                  \/ checks(d)[f] =
                         [factor |-> twoTier[f], status |-> "warning"]

C14_Witness ==
    /\ Scored
    /\ last.data.solids = N(10000)
    /\ checks(last.data).solids.factor = 40
    /\ last.result.parameters["TDS"].status = "warning"


\* C15: every successful Analyze puts the new entry at the head of the
\* ledger, in front of the entries that were there, in their order (newest
\* first); when that makes 51 entries, the last one (the oldest) is the one
\* dropped and the new one is kept.
C15_InsertAtHeadDropOldest ==
    [][(last'.op = "analyze" /\ last'.result # None) =>
        LET e == [result |-> last'.result, data |-> last'.data]
        IN  /\ history'[1] = e
            /\ Len(history) < 50 => history' = <<e>> \o history
            /\ Len(history) >= 50 =>
                   history' = <<e>> \o SubSeq(history, 1, 49)]_vars

C15_Witness ==
    /\ analyses > 50
    /\ last.op = "analyze"
    /\ Len(history) = 50
    /\ history[1] = [result |-> last.result, data |-> last.data]
    /\ history[50].data # history[1].data


\* C16: the summary of the History page has total count equal to the ledger
\* length, potable count plus non-potable count equal to the total, and
\* mean confidence equal to the sum of the confidences over the total; on
\* an empty ledger the summary is skipped, so that no division by zero
\* happens in any state, right after Clear History included.
C16_SummaryStatistics ==
    /\ ~summary.raised
    /\ (page = "History" /\ history = <<>>) => ~summary.shown
    /\ (page = "History" /\ history # <<>>) =>
          /\ summary.shown
          /\ summary.total_tests = Len(history)
          /\ summary.potable_count =
                Cardinality({i \in 1..Len(history) :
                                history[i].result.potable})
          /\ summary.not_potable_count =
                Cardinality({i \in 1..Len(history) :
                                ~history[i].result.potable})
          /\ summary.potable_count + summary.not_potable_count
                = summary.total_tests
          /\ summary.avg_confidence.den = Len(history)
          /\ summary.avg_confidence.den > 0
          /\ summary.avg_confidence.num = SumConfidence(history)

C16_Witness ==
    /\ page = "History"
    /\ summary.shown
    /\ summary.total_tests = 3
    /\ summary.avg_confidence.num = 111 + 62 + 111


\* The place in the rule order of the field a warning is about.
RulePlace(w) ==
    CASE w \in {HardPhWarning, SoftPhWarning} -> 1
      [] w = "Water hardness is extremely high (>500 mg/L)" -> 2
      [] w = "Total Dissolved Solids is extremely high (>1500 ppm)" -> 3
      [] w = "Chloramines level is extremely high (>8 ppm)" -> 4
      [] w = "Sulfate level exceeds WHO guideline (>500 mg/L)" -> 5
      [] w = "Conductivity is extremely high (>1500 uS/cm)" -> 6
      [] w = "Organic carbon is extremely high (>5 ppm)" -> 7
      [] w = "Trihalomethanes significantly exceed EPA limit (>160 ug/L)"
            -> 8
      [] w = "Turbidity is extremely high (>10 NTU)" -> 9
      [] OTHER -> 0

\* C17: validate_input returns its warnings in the order pH, hardness, TDS,
\* chloramines, sulfate, conductivity, organic carbon, trihalomethanes,
\* turbidity, at most one per field, and each rule but the pH one fires iff
\* the value is strictly greater than its bound (500, 1500, 8, 500, 1500,
\* 5, 160, 10), so that a value equal to the bound gives no warning.
C17_WarningOrderAndBounds ==
    Validated =>
        LET ws == last.warnings
            d == last.data
            Fires(k) == \E i \in 1..Len(ws) : RulePlace(ws[i]) = k
        IN  /\ \A i \in 1..Len(ws) : RulePlace(ws[i]) \in 1..9
            /\ \A i, j \in 1..Len(ws) :
                  i < j => RulePlace(ws[i]) < RulePlace(ws[j])
            /\ Fires(2) <=> d.hardness[1] > 5000
            /\ Fires(3) <=> d.solids[1] > 15000
            /\ Fires(4) <=> d.chloramines[1] > 80
            /\ Fires(5) <=> d.sulfate[1] > 5000
            /\ Fires(6) <=> d.conductivity[1] > 15000
            /\ Fires(7) <=> d.organic_carbon[1] > 50
            /\ Fires(8) <=> d.trihalomethanes[1] > 1600
            /\ Fires(9) <=> d.turbidity[1] > 100

C17_Witness ==
    /\ Validated
    /\ last.op = "validate"
    /\ last.data.turbidity = N(100)
    /\ last.data.ph = N(52)
    /\ last.warnings = <<SoftPhWarning>>


\* C18: the ledger changes only by a successful Analyze (the insert, with
\* the cut past 50) or by Clear History: the initialisation of every script
\* run, page navigation, input edits, the Safe and Unsafe quick fills and
\* Reset to Defaults leave it as it was; initialize_session_state makes an
\* empty ledger only where there is none.
C18_LedgerFrame ==
    /\ [](/\ initialize_session_state(session_state) = session_state
          /\ initialize_session_state(NewSession).history = <<>>)
    /\ [][history' # history =>
            \/ /\ last'.op = "analyze"
               /\ last'.result # None
               /\ history' =
                     SubSeq(<<[result |-> last'.result,
                               data |-> last'.data]>> \o history,
                            1, IF Len(history) < 50 THEN Len(history) + 1
                               ELSE 50)
            \/ /\ last'.op = "clear"
               /\ history' = <<>>]_vars

C18_Witness ==
    /\ page = "About"
    /\ last.op = "none"
    /\ Len(history) = 2
    /\ Inputs(session_state) = defaults
    /\ history[1].data = UnsafeWater
    /\ history[2].data = SafeWater


\* C19: the ledger length is the lesser of 50 and the number of successful
\* Analyze actions since the last Clear History, or since the session
\* started: a successful scoring adds one entry and nothing else adds any.
C19_LengthIsMinOfCapAndAnalyses ==
    Len(history) = IF analyses < 50 THEN analyses ELSE 50

C19_Witness ==
    /\ analyses = 51
    /\ Len(history) = 50
    /\ page = "History"


\* C20: the result stored in each entry of the ledger is
\* predict_water_quality of the record stored in the same entry, and a
\* stored entry is not altered by later edits, quick fills, resets or
\* Analyze actions: a step keeps every entry, moved down by one place at
\* most, unless it clears the ledger.
C20_EntriesConsistentAndKept ==
    /\ [](\A i \in 1..Len(history) :
            /\ ~Malformed(history[i].data)
            /\ history[i].result = predict_water_quality(history[i].data))
    /\ [][\/ history' = <<>>
          \/ history' = history
          \/ /\ Len(history') >= 1
             /\ Len(history') >= Len(history)
             /\ \A i \in 2..Len(history') : history'[i] = history[i - 1]]_vars

C20_Witness ==
    /\ last.op = "none"
    /\ Len(history) = 2
    /\ history[1].data # history[2].data
    /\ Inputs(session_state) # history[1].data
    /\ Inputs(session_state) # history[2].data
    /\ Inputs(session_state) = [defaults EXCEPT !.ph = N(30)]


\* The key of parameter_status of the field a warning is about.
WarnedParam(w) ==
    <<"pH", "Hardness", "TDS", "Chloramines", "Sulfate", "Conductivity",
      "OrganicCarbon", "Trihalomethanes", "Turbidity">>[RulePlace(w)]

\* C21: the Validator and the Scorer agree in one direction: whenever
\* validate_input emits a warning about a field of a measurement (the hard
\* or the soft one for pH), predict_water_quality marks that field
\* 'warning' for the same measurement.  The converse does not hold: a
\* hardness in [300, 500] is 'warning' in the Scorer with no warning of the
\* Validator.
C21_ValidatorWarningImpliesScorerWarning ==
    (last.op = "analyze" /\ ~last.raised /\ last.result # None) =>
        \A i \in 1..Len(last.warnings) :
            /\ RulePlace(last.warnings[i]) \in 1..9
            /\ last.result.parameters[WarnedParam(last.warnings[i])].status
                  = "warning"

\* An Analyze with the hard pH warning and the turbidity warning, both
\* marked 'warning' by the Scorer, and with a hardness of 450 that the
\* Scorer marks 'warning' and the Validator says nothing about.
C21_Witness ==
    /\ last.op = "analyze"
    /\ last.result # None
    /\ last.data.ph = N(110)
    /\ last.data.hardness = N(4500)
    /\ last.data.turbidity = N(101)
    /\ Len(last.warnings) = 2
    /\ last.warnings[1] = HardPhWarning
    /\ last.result.parameters["pH"].status = "warning"
    /\ last.result.parameters["Turbidity"].status = "warning"
    /\ last.result.parameters["Hardness"].status = "warning"
    /\ \A i \in 1..Len(last.warnings) : RulePlace(last.warnings[i]) # 2

====
